---- MODULE Spec2Model ----
(***************************************************************************)
(* The terminal local link detector (TerminalLocalLinkDetector).           *)
(*                                                                         *)
(* A line of terminal text is a sequence of one-character strings; string  *)
(* offsets are 0-based as in the source, so the character at offset i of   *)
(* text is text[i + 1].                                                    *)
(***************************************************************************)
EXTENDS Integers, Sequences, FiniteSets, TLC

\* Constants.MaxLineLength
MaxLineLength == 2000

\* the delay handed to window.setTimeout, in milliseconds
CacheTtl == 10000

(***************************************************************************)
(* Bounds of the model.                                                    *)
(***************************************************************************)
\* longest line of the exhaustive scan inputs
MaxScanLen == 6

\* detect calls the host begins in one behaviour
MaxCalls == 3

\* detect calls suspended at a resolver call at one time
MaxInFlight == 2

\* the clock advances by at most TickMs at a time, MaxTicks times at most
TickMs == 5000

MaxTicks == 2

(***************************************************************************)
(* Characters.                                                             *)
(***************************************************************************)
Whitespace == {" ", "\t", "\n", "\r", "\f"}

Digit == {"0", "1", "2", "3", "4", "5", "6", "7", "8", "9"}

Letter ==
  {"a", "b", "c", "d", "e", "f", "g", "h", "i", "j", "k", "l", "m",
   "n", "o", "p", "q", "r", "s", "t", "u", "v", "w", "x", "y", "z",
   "A", "B", "C", "D", "E", "F", "G", "H", "I", "J", "K", "L", "M",
   "N", "O", "P", "Q", "R", "S", "T", "U", "V", "W", "X", "Y", "Z"}

\* The characters lines are written in.  None of them is a quote, a bracket
\* or one of l, n, o, e, so of the six alternatives of lineAndColumnClause
\* only the last one can match on such a line.
Chars == {"a", "b", "d", "f", "g", "i", "t", "/", "\\", " ", ".", "-", "+", ":", "1"}

\* the character at a 0-based offset
CharAt(text, i) == text[i + 1]

\* String.prototype.substring(from)
Substring(text, from) == SubSeq(text, from + 1, Len(text))

\* String.prototype.startsWith
StartsWith(text, prefix) ==
  /\ Len(prefix) <= Len(text)
  /\ SubSeq(text, 1, Len(prefix)) = prefix

\* the least element of a non-empty set of integers
Least(S) == CHOOSE x \in S : \A y \in S : x <= y

\* indexOf without its second argument: the first offset where link occurs
IndexOfFromStart(text, link, from) ==
  LET at == {i \in 0 .. (Len(text) - Len(link)) :
               SubSeq(text, i + 1, i + Len(link)) = link}
  IN IF at = {} THEN -1 ELSE Least(at)

\* String.prototype.indexOf(link, from): the first offset at or after from
\* where link occurs, or -1
IndexOf(text, link, from) ==
  LET lo == IF from < 0 THEN 0 ELSE from
      at == {i \in lo .. (Len(text) - Len(link)) :
               SubSeq(text, i + 1, i + Len(link)) = link}
  IN IF at = {} THEN -1 ELSE Least(at)

(***************************************************************************)
(* The path grammars and the line/column suffix.                           *)
(***************************************************************************)
\* [^\0\s!`&*()\[\]'":;\\]
excludedPathCharactersClause(c) ==
  c \notin (Whitespace \cup
            {"!", "`", "&", "*", "(", ")", "[", "]", "'", "\"", ":", ";", "\\"})

\* [^\0<>\?\|\/\s!`&*()\[\]'":;]
winExcludedPathCharactersClause(c) ==
  c \notin (Whitespace \cup
            {"<", ">", "?", "|", "/",
             "!", "`", "&", "*", "(", ")", "[", "]", "'", "\"", ":", ";"})

pathSeparatorClause(c) == c = "/"

winPathSeparatorClause(c) == c \in {"\\", "/"}

\* the path-body class and the separator class of a platform
IsBody(os, c) ==
  IF os = "Windows" THEN winExcludedPathCharactersClause(c)
  ELSE excludedPathCharactersClause(c)

IsSep(os, c) ==
  IF os = "Windows" THEN winPathSeparatorClause(c) ELSE pathSeparatorClause(c)

\* (body+)?(sep body+)+ matches at offset j: body characters up to a
\* separator that a body character follows.  The prefixes .., . and ~ are
\* runs of body characters, so (prefix|body+)? adds nothing to this.
RECURSIVE BodyThenSeparator(_, _, _)
BodyThenSeparator(os, text, j) ==
  IF j + 2 > Len(text) THEN FALSE
  ELSE IF IsSep(os, CharAt(text, j)) /\ IsBody(os, CharAt(text, j + 1)) THEN TRUE
  ELSE IF IsBody(os, CharAt(text, j)) THEN BodyThenSeparator(os, text, j + 1)
  ELSE FALSE

\* winDrivePrefix, [a-zA-Z]: at offset p, followed by a separator and a body
\* character (the \\?\ escape needs a question mark, which no line holds)
winDrivePrefix(text, p) ==
  /\ p + 4 <= Len(text)
  /\ CharAt(text, p) \in Letter
  /\ CharAt(text, p + 1) = ":"
  /\ winPathSeparatorClause(CharAt(text, p + 2))
  /\ winExcludedPathCharactersClause(CharAt(text, p + 3))

\* unixLocalLinkClause matches at offset p
unixLocalLinkClause(text, p) == BodyThenSeparator("Linux", text, p)

\* winLocalLinkClause matches at offset p
winLocalLinkClause(text, p) ==
  BodyThenSeparator("Windows", text, p) \/ winDrivePrefix(text, p)

\* [^:\s()<>'"\[\]], the class the last alternative of lineAndColumnClause
\* repeats after the path
SuffixChar(c) ==
  c \notin (Whitespace \cup {":", "(", ")", "<", ">", "'", "\"", "[", "]"})

\* the offset after the run of SuffixChar that starts at offset q
RECURSIVE SuffixRunEnd(_, _)
SuffixRunEnd(text, q) ==
  IF q < Len(text) /\ SuffixChar(CharAt(text, q))
  THEN SuffixRunEnd(text, q + 1) ELSE q

\* the offset after the run of digits that starts at offset q
RECURSIVE DigitRunEnd(_, _)
DigitRunEnd(text, q) ==
  IF q < Len(text) /\ CharAt(text, q) \in Digit
  THEN DigitRunEnd(text, q + 1) ELSE q

\* (:(\d+))? at offset q: the offset after it
ColonNumber(text, q) ==
  IF q + 2 <= Len(text) /\ CharAt(text, q) = ":" /\ CharAt(text, q + 1) \in Digit
  THEN DigitRunEnd(text, q + 1) ELSE q

\* lineAndColumnClause from offset q, where the path characters end: the
\* offset after the suffix.  The path and the suffix are greedy, and path
\* characters are suffix characters, so the match runs to the end of the run
\* of suffix characters and then takes up to two :number groups.
lineAndColumnClause(text, q) ==
  ColonNumber(text, ColonNumber(text, SuffixRunEnd(text, q)))

\* _localLinkRegex matches at offset p
LocalLinkAt(os, text, p) ==
  IF os = "Windows" THEN winLocalLinkClause(text, p)
  ELSE unixLocalLinkClause(text, p)

\* the offset after the match of _localLinkRegex that starts at offset p
LocalLinkEnd(os, text, p) ==
  IF os = "Windows" /\ ~BodyThenSeparator("Windows", text, p)
  THEN lineAndColumnClause(text, p + 2)
  ELSE lineAndColumnClause(text, p)

NoMatch == [index |-> -1]

\* rex.exec(text) of the global clone of _localLinkRegex with
\* rex.lastIndex = lastIndex: the leftmost match at or after lastIndex, as
\* [index, 0: match[0]], or NoMatch (null)
_localLinkRegex(os, text, lastIndex) ==
  LET lo == IF lastIndex < 0 THEN 0 ELSE lastIndex
      at == {p \in lo .. (Len(text) - 1) : LocalLinkAt(os, text, p)}
  IN IF at = {} THEN NoMatch
     ELSE LET p == Least(at)
          IN [index |-> p, link |-> SubSeq(text, p + 1, LocalLinkEnd(os, text, p))]

(***************************************************************************)
(* One iteration of the scan loop of detect.                               *)
(***************************************************************************)
\* IsGitDiffPrefixed without the test of the offset of the match
IsGitDiffPrefixedAtAnyOffset(text, link, stringIndex) ==
  \/ \/ StartsWith(text, <<"-", "-", "-", " ", "a", "/">>)
     \/ StartsWith(text, <<"+", "+", "+", " ", "b", "/">>)
  \/ /\ StartsWith(text, <<"d", "i", "f", "f", " ", "-", "-", "g", "i", "t">>)
     /\ \/ StartsWith(link, <<"a", "/">>)
        \/ StartsWith(link, <<"b", "/">>)

\* the line looks like a git diff and the link carries its a/ or b/
IsGitDiffPrefixed(text, link, stringIndex) ==
  \/ /\ \/ StartsWith(text, <<"-", "-", "-", " ", "a", "/">>)
        \/ StartsWith(text, <<"+", "+", "+", " ", "b", "/">>)
     /\ stringIndex = 4
  \/ /\ StartsWith(text, <<"d", "i", "f", "f", " ", "-", "-", "g", "i", "t">>)
     /\ \/ StartsWith(link, <<"a", "/">>)
        \/ StartsWith(link, <<"b", "/">>)

\* LinkRange with the end column on the last character of the link
LinkRangeInclusiveEnd(stringIndex, link) ==
  [startColumn |-> stringIndex + 1,
   startLineNumber |-> 1,
   endColumn |-> stringIndex + Len(link),
   endLineNumber |-> 1]

\* the range handed to convertLinkRangeToBuffer
LinkRange(stringIndex, link) ==
  [startColumn |-> stringIndex + 1,
   startLineNumber |-> 1,
   endColumn |-> stringIndex + Len(link) + 1,
   endLineNumber |-> 1]

\* The body of the while loop up to the buffer range, from the loop state
\* (rex.lastIndex, stringIndex):
\*   kind "end":   rex.exec returned null, the loop ends;
\*   kind "break": an empty match or a failed indexOf, the loop ends;
\*   kind "match": the link, its offset and range, and the next loop state.
ScanIteration(os, text, lastIndex, stringIndex) ==
  LET match == _localLinkRegex(os, text, lastIndex)
  IN IF match = NoMatch THEN [kind |-> "end"]
     ELSE IF match.link = <<>> THEN [kind |-> "break"]
     ELSE
       LET found == IndexOf(text, match.link, stringIndex + 1)
           nextLastIndex == found + Len(match.link)
           diff == IsGitDiffPrefixed(text, match.link, found)
           link == IF diff THEN Substring(match.link, 2) ELSE match.link
           index == IF diff THEN found + 2 ELSE found
       IN IF found < 0 THEN [kind |-> "break"]
          ELSE [kind |-> "match",
                matched |-> match.link,
                matchIndex |-> match.index,
                found |-> found,
                link |-> link,
                stringIndex |-> index,
                lastIndex |-> nextLastIndex,
                range |-> LinkRange(index, link)]

(***************************************************************************)
(* The state.                                                              *)
(***************************************************************************)
VARIABLES
  cachedValidatedLinks,  \* the module-level Map: link text -> result or Null
  _cacheTilTimeout,      \* per detector: the handle of its last timeout, or 0
  timeouts,              \* window: pending timeout handle -> time it is due
  timeoutSeq,            \* window: the last handle setTimeout returned
  now,                   \* the clock, in milliseconds
  folders,               \* the workspace folders, an array of URIs
  calls,                 \* the detect calls begun so far, in the order begun
  host,                  \* what the host of a behaviour shows and asks for
  notFound,              \* history: the links stored as Null since the last clear
  scan                   \* the scan loop run on its own (SpecScan)

vars ==
  <<cachedValidatedLinks, _cacheTilTimeout, timeouts, timeoutSeq, now,
    folders, calls, host, notFound, scan>>

Undefined == [undefined |-> TRUE]

Null == [null |-> TRUE]

\* Three detectors share the cache: two with caching enabled, on a POSIX and
\* on a Windows terminal, and one whose subclass disabled caching.
Detectors == {"d1", "d2", "d3"}

_os(d) == IF d = "d2" THEN "Windows" ELSE "Linux"

_enableCaching(d) == d # "d3"

\* URIs are paths, sequences of segments
InsideFile == [uri |-> <<"w", "s", "f">>, isDirectory |-> FALSE]

FolderItself == [uri |-> <<"w">>, isDirectory |-> TRUE]

InsideFolder == [uri |-> <<"w", "s">>, isDirectory |-> TRUE]

OutsideFolder == [uri |-> <<"o">>, isDirectory |-> TRUE]

\* extUri.isEqualOrParent(uri, parent): uri is parent or lies under it
isEqualOrParent(uri, parent) ==
  /\ Len(parent) <= Len(uri)
  /\ SubSeq(uri, 1, Len(parent)) = parent

\* what _resolvePath may resolve a link to, besides undefined: one of the
\* files and folders on the disk of the behaviour, with the link it was given
ResolverResults(link) ==
  {[uri |-> e.uri, link |-> link, isDirectory |-> e.isDirectory] : e \in host.disk}

\* types.withUndefinedAsNull
withUndefinedAsNull(x) == IF x = Undefined THEN Null ELSE x

\* Map.prototype.get
MapGet(map, key) == IF key \in DOMAIN map THEN map[key] ELSE Undefined

\* Map.prototype.set
MapSet(map, key, value) ==
  [k \in DOMAIN map \cup {key} |-> IF k = key THEN value ELSE map[k]]

\* an empty Map, and the Map after clear()
EmptyMap == [k \in {} |-> Null]

PathAB == <<"a", "/", "b">>

Blanks(n) == [i \in 1 .. n |-> " "]

\* getXtermLineContent: the text of the wrapped line a detect call is given
getXtermLineContent(line) ==
  CASE line = "empty" -> <<>>
    [] line = "path" -> PathAB
    [] line = "parent" -> <<".", ".", "/", ".", ".", "/", "a", "/", "b">>
    [] line = "winparent" -> <<".", ".", "\\", "a", "\\", "b">>
    [] line = "twice" -> <<"a", "/", "b", " ", "a", "/", "b">>
    [] line = "two" -> <<"a", "/", "b", " ", "b", "/", "a", ":", "1">>
    [] line = "diff" -> <<"-", "-", "-", " ", "a", "/", "b">>
    [] line = "full" -> PathAB \o Blanks(MaxLineLength - 3)
    [] line = "over" -> PathAB \o Blanks(MaxLineLength - 2)

\* /^(\.\.[\/\\])+/ matches a prefix of link: the length of that prefix
RECURSIVE ParentSegments(_, _)
ParentSegments(link, n) ==
  IF /\ n + 3 <= Len(link)
     /\ link[n + 1] = "." /\ link[n + 2] = "."
     /\ link[n + 3] \in {"/", "\\"}
  THEN ParentSegments(link, n + 3) ELSE n

\* linkCandidates of a link that is not cached
LinkCandidates(link) ==
  IF ParentSegments(link, 0) > 0
  THEN <<link, Substring(link, ParentSegments(link, 0))>>
  ELSE <<link>>

\* _isDirectoryInsideWorkspace with a loop that returns in its first round
FirstFolderOnly(uri) ==
  Len(folders) > 0 /\ isEqualOrParent(uri, folders[1])

\* _isDirectoryInsideWorkspace
_isDirectoryInsideWorkspace(uri) ==
  \E i \in 1 .. Len(folders) : isEqualOrParent(uri, folders[i])

\* the type of the link created for a validated link
LinkType(linkStat) ==
  IF linkStat.isDirectory
  THEN IF _isDirectoryInsideWorkspace(linkStat.uri)
       THEN "LocalFolderInWorkspace" ELSE "LocalFolderOutsideWorkspace"
  ELSE "LocalFile"

\* convertLinkRangeToBuffer for a line that starts at buffer line startLine
\* of a terminal wide enough not to wrap the link
convertLinkRangeToBuffer(range, startLine) ==
  [start |-> [x |-> range.startColumn, y |-> range.startLineNumber + startLine],
   end |-> [x |-> range.endColumn - 1, y |-> range.endLineNumber + startLine]]

\* the link pushed for a validated link
SimpleLink(linkStat, range) ==
  [text |-> linkStat.link,
   uri |-> linkStat.uri,
   bufferRange |-> convertLinkRangeToBuffer(range, 0),
   type |-> LinkType(linkStat)]

\* a value the test if (linkStat) takes for true
Truthy(linkStat) == linkStat \notin {Undefined, Null}

\* The outer linkStat after the block of a link that is not cached: the
\* block declares a const linkStat of its own for the validation result, so
\* the outer one keeps the value the cache gave it, undefined.
LinkStatAfterValidation(outer, validated) == outer

\* a detect call that is not at a resolver call
Settled(c) ==
  [c EXCEPT !.lastIndex = 0, !.stringIndex = -1, !.link = <<>>,
            !.range = Null, !.linkStat = Undefined, !.negative = FALSE,
            !.linkCandidates = <<>>, !.candidate = 0, !.outcomes = <<>>]

\* "Create the link if validated", with a record of the match kept for the
\* properties: what the cache held for it, whether it had been stored as
\* Null since the last clear, the resolver calls made for it and what they
\* returned, what _validateLinkCandidates returned and whether a link was
\* pushed
AfterMatch(c, link, range, cached, negative, resolverCalls, validated, linkStat) ==
  [c EXCEPT
     !.outcomes = <<>>,
     !.links = IF Truthy(linkStat)
               THEN Append(@, SimpleLink(linkStat, range)) ELSE @,
     !.matches = Append(@, [link |-> link,
                            range |-> range,
                            cached |-> cached,
                            negative |-> negative,
                            resolverCalls |-> resolverCalls,
                            outcomes |-> c.outcomes,
                            validated |-> validated,
                            linked |-> Truthy(linkStat)])]

\* NotCached with == in place of ===, which null passes as well
NotCachedLoosely(linkStat) == linkStat \in {Undefined, Null}

\* "The link isn't cached": linkStat === undefined
NotCached(linkStat) == linkStat = Undefined

\* The while loop of detect from the loop state of c, up to the first link
\* that is not cached (the call then waits for _resolvePath) or to its end.
\* stored is the history notFound.
RECURSIVE RunLoop(_, _, _)
RunLoop(c, cache, stored) ==
  LET it == ScanIteration(_os(c.det), getXtermLineContent(c.line),
                          c.lastIndex, c.stringIndex)
  IN IF it.kind # "match"
     THEN [Settled(c) EXCEPT !.pc = "returned", !.end = now]
     ELSE
       LET c1 == [c EXCEPT !.lastIndex = it.lastIndex,
                           !.stringIndex = it.stringIndex]
           linkStat == MapGet(cache, it.link)
       IN IF NotCached(linkStat)
          THEN [c1 EXCEPT !.pc = "await",
                          !.link = it.link,
                          !.range = it.range,
                          !.linkStat = linkStat,
                          !.negative = it.link \in stored,
                          !.linkCandidates = LinkCandidates(it.link),
                          !.candidate = 1]
          ELSE RunLoop(AfterMatch(c1, it.link, it.range, linkStat,
                                  it.link \in stored, <<>>, Undefined,
                                  linkStat),
                       cache, stored)

\* WithinBounds with the length compared by >=
WithinBoundsExclusive(text) == ~(text = <<>> \/ Len(text) >= MaxLineLength)

\* the text is one detect looks for links in
WithinBounds(text) == ~(text = <<>> \/ Len(text) > MaxLineLength)

\* the detect calls waiting for _resolvePath
InFlight == {i \in 1 .. Len(calls) : calls[i].pc = "await"}

\* the link the pending _resolvePath call of a waiting detect call was given
Awaited(c) == c.linkCandidates[c.candidate]

\* window.clearTimeout
ClearTimeout(pending, handle) ==
  [h \in DOMAIN pending \ {handle} |-> pending[h]]

\* window.setTimeout(callback, CacheTtl), which returns handle
SetTimeout(pending, handle) ==
  [h \in DOMAIN pending \cup {handle} |->
     IF h = handle THEN now + CacheTtl ELSE pending[h]]

\* The clock is read in steps.  A timeout that is due at a reading runs
\* before anything else that happens at that reading: what happens just
\* before it is due happens at an earlier reading.
NoTimeoutDue == \A h \in DOMAIN timeouts : timeouts[h] > now

(***************************************************************************)
(* The operations.                                                         *)
(***************************************************************************)
\* detect on detector d for wrapped line line: from its start to its first
\* resolver call or its return
Detect(d, line) ==
  /\ NoTimeoutDue
  /\ Len(calls) < host.calls
  /\ Cardinality(InFlight) < MaxInFlight
  /\ IF _enableCaching(d)
     THEN /\ timeoutSeq' = timeoutSeq + 1
          /\ timeouts' =
               SetTimeout(IF _cacheTilTimeout[d] # 0
                          THEN ClearTimeout(timeouts, _cacheTilTimeout[d])
                          ELSE timeouts,
                          timeoutSeq + 1)
          /\ _cacheTilTimeout' = [_cacheTilTimeout EXCEPT ![d] = timeoutSeq + 1]
     ELSE UNCHANGED <<timeoutSeq, timeouts, _cacheTilTimeout>>
  /\ LET c == [det |-> d, line |-> line, start |-> now, end |-> now,
               quiet |-> InFlight = {}, pc |-> "returned",
               lastIndex |-> 0, stringIndex |-> -1,
               link |-> <<>>, range |-> Null, linkStat |-> Undefined,
               negative |-> FALSE, linkCandidates |-> <<>>,
               candidate |-> 0, outcomes |-> <<>>,
               links |-> <<>>, matches |-> <<>>]
     IN calls' = Append(calls,
                        IF WithinBounds(getXtermLineContent(line))
                        THEN RunLoop(c, cachedValidatedLinks, notFound) ELSE c)
  /\ UNCHANGED <<cachedValidatedLinks, now, folders, host, notFound, scan>>

\* _validateLinkCandidates of call i has returned validated: the rest of the
\* block of the uncached link, the link creation and the loop up to the next
\* resolver call
Validated(c, validated, cache, stored) ==
  LET linkStat == LinkStatAfterValidation(c.linkStat, validated)
  IN RunLoop(AfterMatch(c, c.link, c.range, c.linkStat, c.negative,
                        SubSeq(c.linkCandidates, 1, c.candidate),
                        validated, linkStat),
             cache, stored)

\* _validateLinkCandidates returns with every candidate tried
ValidationEndsAtLast(c, result) == c.candidate = Len(c.linkCandidates)

\* _validateLinkCandidates returns after its first candidate
ValidationEndsAtFirst(c, result) == TRUE

\* _validateLinkCandidates returns: result is truthy, or the loop is over
ValidationEnds(c, result) ==
  result # Undefined \/ c.candidate = Len(c.linkCandidates)

\* Stored that sets an entry only for a link that was found
StoredIfFound(d, cache, link, validated) ==
  IF _enableCaching(d) /\ validated # Undefined
  THEN MapSet(cache, link, withUndefinedAsNull(validated)) ELSE cache

\* Stored without the test of _enableCaching
StoredAlways(d, cache, link, validated) ==
  MapSet(cache, link, withUndefinedAsNull(validated))

\* the cache after the block of a link that was not cached, on detector d
Stored(d, cache, link, validated) ==
  IF _enableCaching(d)
  THEN MapSet(cache, link, withUndefinedAsNull(validated)) ELSE cache

\* The promise of the _resolvePath call that detect call i waits for
\* resolves to result.  The continuation of the await in detect follows that
\* of the await in _validateLinkCandidates with nothing but continuations of
\* other calls in between, so the two are one step.
ResolvePathReturns(i, result) ==
  /\ NoTimeoutDue
  /\ i \in InFlight
  /\ LET c == [calls[i] EXCEPT
                 !.outcomes = Append(@, [link |-> Awaited(calls[i]),
                                         result |-> result])]
     IN IF ValidationEnds(c, result)
        THEN LET cache == Stored(c.det, cachedValidatedLinks, c.link, result)
                 stored == IF _enableCaching(c.det) /\ result = Undefined
                           THEN notFound \cup {c.link} ELSE notFound
             IN /\ cachedValidatedLinks' = cache
                /\ notFound' = stored
                /\ calls' = [calls EXCEPT
                               ![i] = Validated(c, result, cache, stored)]
        ELSE /\ calls' = [calls EXCEPT ![i] = [c EXCEPT !.candidate = @ + 1]]
             /\ UNCHANGED <<cachedValidatedLinks, notFound>>
  /\ UNCHANGED <<_cacheTilTimeout, timeouts, timeoutSeq, now, folders, host, scan>>

\* ResolvePathThrows with the link stored as not found before detect rejects
ResolvePathThrowsStored(i) ==
  /\ NoTimeoutDue
  /\ i \in InFlight
  /\ cachedValidatedLinks' =
       Stored(calls[i].det, cachedValidatedLinks, calls[i].link, Undefined)
  /\ calls' = [calls EXCEPT
                 ![i] = [Settled(@) EXCEPT !.pc = "rejected", !.end = now,
                                           !.link = calls[i].link]]
  /\ UNCHANGED <<_cacheTilTimeout, timeouts, timeoutSeq,
                 now, folders, host, notFound, scan>>

\* The promise of the _resolvePath call rejects: detect call i rejects, at
\* the link it was validating.
ResolvePathThrows(i) ==
  /\ NoTimeoutDue
  /\ i \in InFlight
  /\ calls' = [calls EXCEPT
                 ![i] = [Settled(@) EXCEPT !.pc = "rejected", !.end = now,
                                           !.link = calls[i].link]]
  /\ UNCHANGED <<cachedValidatedLinks, _cacheTilTimeout, timeouts, timeoutSeq,
                 now, folders, host, notFound, scan>>

\* the callback of pending timeout h runs: cachedValidatedLinks.clear()
TimeoutFires(h) ==
  /\ h \in DOMAIN timeouts
  /\ timeouts[h] <= now
  /\ cachedValidatedLinks' = EmptyMap
  /\ notFound' = {}
  /\ timeouts' = ClearTimeout(timeouts, h)
  /\ UNCHANGED <<_cacheTilTimeout, timeoutSeq, now, folders, calls, host, scan>>

\* time passes, up to the time the next timeout is due
Tick ==
  /\ NoTimeoutDue
  /\ now < host.ticks * TickMs
  /\ now' = Least({now + TickMs} \cup {timeouts[h] : h \in DOMAIN timeouts})
  /\ UNCHANGED <<cachedValidatedLinks, _cacheTilTimeout, timeouts, timeoutSeq,
                 folders, calls, host, notFound, scan>>

ScanIdle == [pc |-> "idle"]

\* the state after the module is loaded and the detectors are constructed
Loaded ==
  /\ cachedValidatedLinks = EmptyMap
  /\ _cacheTilTimeout = [d \in Detectors |-> 0]
  /\ timeouts = [h \in {} |-> 0]
  /\ timeoutSeq = 0
  /\ now = 0
  /\ calls = <<>>
  /\ notFound = {}

\* Two terminals and a subclass share the cache; the lines hold one path.
Init ==
  /\ Loaded
  /\ folders = <<(<<"v">>), (<<"w">>)>>
  /\ host = [lines |-> {"empty", "path"},
             detectors |-> {"d1", "d2"},
             disk |-> {InsideFile},
             calls |-> MaxCalls,
             ticks |-> MaxTicks]
  /\ scan = ScanIdle

\* Two terminals and a subclass that disabled caching; the line holds a
\* path, with parent segments, with a suffix, with a diff prefix, or twice.
InitLinks ==
  /\ Loaded
  /\ folders = <<(<<"w">>)>>
  /\ host \in {[lines |-> {line},
                detectors |-> Detectors,
                disk |-> {InsideFile, OutsideFolder},
                calls |-> 2,
                ticks |-> MaxTicks] :
               line \in {"path", "parent", "winparent", "twice", "two", "diff"}}
  /\ scan = ScanIdle

\* One terminal; the disk holds a file and folders in and out of the
\* workspace, which has no folder, one, or two.
InitWorkspace ==
  /\ Loaded
  /\ folders \in {<<>>, <<(<<"w">>)>>, <<(<<"v">>), (<<"w">>)>>}
  /\ host = [lines |-> {"path"},
             detectors |-> {"d1"},
             disk |-> {InsideFile, FolderItself, InsideFolder, OutsideFolder},
             calls |-> 2,
             ticks |-> MaxTicks]
  /\ scan = ScanIdle

\* One terminal; the lines are empty, as long as a line may be, and longer.
InitLength ==
  /\ Loaded
  /\ folders = <<(<<"w">>)>>
  /\ host = [lines |-> {"empty", "full", "over", "path"},
             detectors |-> {"d1"},
             disk |-> {InsideFile},
             calls |-> 2,
             ticks |-> MaxTicks]
  /\ scan = ScanIdle

\* One terminal, whose detect calls may overlap; the line holds one path,
\* which the resolver finds or not.
InitOverlap ==
  /\ Loaded
  /\ folders = <<(<<"w">>)>>
  /\ host = [lines |-> {"path"},
             detectors |-> {"d1"},
             disk |-> {InsideFile},
             calls |-> MaxCalls,
             ticks |-> MaxTicks]
  /\ scan = ScanIdle

Next ==
  \/ \E d \in host.detectors, line \in host.lines : Detect(d, line)
  \/ \E i \in InFlight :
       \E result \in {Undefined} \cup ResolverResults(Awaited(calls[i])) :
         ResolvePathReturns(i, result)
  \/ \E i \in InFlight : ResolvePathThrows(i)
  \/ \E h \in DOMAIN timeouts : TimeoutFires(h)
  \/ Tick

Spec == Init /\ [][Next]_vars

SpecLinks == InitLinks /\ [][Next]_vars

SpecWorkspace == InitWorkspace /\ [][Next]_vars

SpecLength == InitLength /\ [][Next]_vars

SpecOverlap == InitOverlap /\ [][Next]_vars

(***************************************************************************)
(* The scan loop on its own: which links it finds, and where, is a         *)
(* function of the text and the platform alone.                            *)
(***************************************************************************)
ScanChars == {"a", "/", " "}

RECURSIVE Texts(_)
Texts(n) ==
  IF n = 0 THEN {<<>>}
  ELSE Texts(n - 1) \cup
       {Append(t, ch) : t \in {u \in Texts(n - 1) : Len(u) = n - 1}, ch \in ScanChars}

DiffPrefixes ==
  { <<>>,
    <<"-", "-", "-", " ">>,
    <<"-", "-", "-", " ", "a", "/", "b", " ">>,
    <<"+", "+", "+", " ", "b">>,
    <<"d", "i", "f", "f", " ", "-", "-", "g", "i", "t", " ">>,
    <<"d", "i", "f", "f", " ", "-", "-", "g", "i", "t", " ", "b", "/", "a", ":", "1", " ">>,
    <<".", ".", "\\", "b">> }

ScanTexts == {pre \o t : pre \in DiffPrefixes, t \in Texts(MaxScanLen)}

InitScan ==
  /\ Loaded
  /\ folders = <<>>
  /\ host = [lines |-> {}, detectors |-> {}, disk |-> {}, calls |-> 0, ticks |-> 0]
  /\ scan \in {[pc |-> "loop", os |-> os, text |-> text,
                lastIndex |-> 0, stringIndex |-> -1, out |-> <<>>] :
               os \in {"Linux", "Windows"},
               text \in {t \in ScanTexts : WithinBounds(t)}}

\* one iteration of the while loop that finds a link
ScanMatch ==
  /\ scan.pc = "loop"
  /\ LET it == ScanIteration(scan.os, scan.text, scan.lastIndex, scan.stringIndex)
     IN /\ it.kind = "match"
        /\ scan' = [scan EXCEPT !.lastIndex = it.lastIndex,
                                !.stringIndex = it.stringIndex,
                                !.out = Append(@, it)]
  /\ UNCHANGED <<cachedValidatedLinks, _cacheTilTimeout, timeouts, timeoutSeq,
                 now, folders, calls, host, notFound>>

\* the iteration that ends the while loop
ScanEnd ==
  /\ scan.pc = "loop"
  /\ LET it == ScanIteration(scan.os, scan.text, scan.lastIndex, scan.stringIndex)
     IN /\ it.kind # "match"
        /\ scan' = [scan EXCEPT !.pc = it.kind]
  /\ UNCHANGED <<cachedValidatedLinks, _cacheTilTimeout, timeouts, timeoutSeq,
                 now, folders, calls, host, notFound>>

NextScan == ScanMatch \/ ScanEnd

SpecScan == InitScan /\ [][NextScan]_vars

(***************************************************************************)
(* Properties.                                                             *)
(***************************************************************************)
\* the result the validation of a match ended in: the entry the cache held,
\* or what _validateLinkCandidates returned
ValidationResult(m) == IF Truthy(m.cached) THEN m.cached ELSE m.validated

Succeeded(m) == Truthy(ValidationResult(m))

IsLinked(m) == m.linked

\* the matches of a call for which a link was pushed, in order
LinkedMatches(c) == SelectSeq(c.matches, IsLinked)

\* the validations call c ran for the matched string link
Validations(c, link) ==
  Cardinality({k \in 1 .. Len(c.matches) :
                 /\ c.matches[k].link = link
                 /\ c.matches[k].resolverCalls # <<>>})

MatchedStrings(c) == {c.matches[k].link : k \in 1 .. Len(c.matches)}

\* C1: in a detect call that has returned, the links are exactly those of the
\* matches whose validation succeeded, from the cache or from the resolver
\* during the call, one link each and in order, with the uri and the text of
\* the validated result.
C1_ValidatedMatchesLinked ==
  \A i \in 1 .. Len(calls) :
    calls[i].pc = "returned" =>
      LET ok == SelectSeq(calls[i].matches, Succeeded)
          links == calls[i].links
      IN /\ Len(links) = Len(ok)
         /\ \A k \in 1 .. Len(ok) :
              /\ links[k].uri = ValidationResult(ok[k]).uri
              /\ links[k].text = ValidationResult(ok[k]).link

\* C2: in a detect call that has returned, a match that begins with parent
\* segments, whose raw text the resolver failed on and whose stripped text it
\* resolved, has a link with the text and the uri of the stripped candidate's
\* result.
C2_ParentFallbackLinked ==
  \A i \in 1 .. Len(calls) :
    calls[i].pc = "returned" =>
      \A k \in 1 .. Len(calls[i].matches) :
        LET m == calls[i].matches[k]
        IN (/\ ParentSegments(m.link, 0) > 0
            /\ Len(m.resolverCalls) = 2
            /\ Truthy(m.validated))
           => \E n \in 1 .. Len(calls[i].links) :
                /\ calls[i].links[n].text = m.validated.link
                /\ calls[i].links[n].uri = m.validated.uri

\* C3: two detect calls of one caching detector on the same line, begun one
\* after the other less than 10 s apart with no other call waiting for the
\* resolver, validate each matched string at most once between them; and a
\* detect call of a caching detector begun 10 s or more after every earlier
\* call had ended validates each string it matches.
C3_CacheIdempotence ==
  /\ \A i \in 1 .. Len(calls) - 1 :
       LET a == calls[i]
           b == calls[i + 1]
       IN (/\ a.pc = "returned" /\ b.pc = "returned"
           /\ a.quiet /\ b.quiet
           /\ a.det = b.det /\ _enableCaching(a.det)
           /\ a.line = b.line
           /\ b.start - a.start < CacheTtl)
          => \A link \in MatchedStrings(a) \cup MatchedStrings(b) :
               Validations(a, link) + Validations(b, link) <= 1
  /\ \A j \in 2 .. Len(calls) :
       LET b == calls[j]
       IN (/\ b.pc = "returned" /\ b.quiet
           /\ _enableCaching(b.det)
           /\ \A i \in 1 .. j - 1 : calls[i].end + CacheTtl <= b.start)
          => \A link \in MatchedStrings(b) : Validations(b, link) >= 1

\* C4 as stated: a match whose string was stored as not found since the last
\* clear of the cache, before the match was looked up, gets no link and no
\* resolver call.
C4_NegativeCaching ==
  \A i \in 1 .. Len(calls) :
    /\ \A k \in 1 .. Len(calls[i].matches) :
         LET m == calls[i].matches[k]
         IN m.negative => ~m.linked /\ m.resolverCalls = <<>>
    /\ calls[i].pc = "await" => ~calls[i].negative

\* C4: a match for which the cache holds the not-found entry when it is looked
\* up gets no link and no resolver call, the entry is the one a validation
\* stored since the last clear, and the resolver is called only for a match
\* the cache holds nothing for.
C4_NegativeCachingWhileHeld ==
  \A i \in 1 .. Len(calls) :
    /\ \A k \in 1 .. Len(calls[i].matches) :
         LET m == calls[i].matches[k]
         IN /\ m.cached = Null =>
                 m.negative /\ ~m.linked /\ m.resolverCalls = <<>>
            /\ m.resolverCalls # <<>> => m.cached = Undefined
    /\ calls[i].pc = "await" => calls[i].linkStat = Undefined

\* a detect call found the not-found entry a validation had stored
C4_NotFoundEntryHit ==
  \E i \in 1 .. Len(calls) :
    \E k \in 1 .. Len(calls[i].matches) :
      /\ calls[i].matches[k].cached = Null
      /\ calls[i].matches[k].negative
      /\ calls[i].pc = "returned"
      /\ calls[i].links = <<>>

\* C5: the spans (start offset, length) of the matches of one scan are
\* disjoint and in increasing order: each starts at or after the end of the
\* one before.
C5_NonOverlap ==
  \A i, j \in 1 .. Len(scan.out) :
    i < j =>
      scan.out[i].stringIndex + Len(scan.out[i].link) <= scan.out[j].stringIndex

\* C6: when the line starts with "--- a/" or "+++ b/" and the match is at
\* offset 4, or the line starts with "diff --git" and the match with "a/" or
\* "b/", the link is the match without its first two characters, its offset
\* is 2 more and its end is that of the match; in every other case the link
\* and its offset are those of the match.
C6_DiffPrefixStripping ==
  \A k \in 1 .. Len(scan.out) :
    LET e == scan.out[k]
        text == scan.text
        fileLine ==
          /\ Len(text) >= 6
          /\ SubSeq(text, 1, 6) \in {<<"-", "-", "-", " ", "a", "/">>,
                                     <<"+", "+", "+", " ", "b", "/">>}
        gitLine ==
          /\ Len(text) >= 10
          /\ SubSeq(text, 1, 10) = <<"d", "i", "f", "f", " ", "-", "-", "g", "i", "t">>
        prefixed ==
          /\ Len(e.matched) >= 2
          /\ SubSeq(e.matched, 1, 2) \in {<<"a", "/">>, <<"b", "/">>}
    IN IF (fileLine /\ e.found = 4) \/ (gitLine /\ prefixed)
       THEN /\ e.link = SubSeq(e.matched, 3, Len(e.matched))
            /\ e.stringIndex = e.found + 2
            /\ e.stringIndex + Len(e.link) = e.found + Len(e.matched)
            /\ e.range = LinkRange(e.found + 2, e.link)
       ELSE /\ e.link = e.matched
            /\ e.stringIndex = e.found
            /\ e.range = LinkRange(e.found, e.matched)

\* a scan stripped the prefix of a match at offset 4 of a "--- a/" line and
\* left a later match of the line as it was
C6_PrefixStripped ==
  /\ scan.pc # "idle"
  /\ StartsWith(scan.text, <<"-", "-", "-", " ", "a", "/">>)
  /\ Len(scan.out) >= 2
  /\ scan.out[1].found = 4
  /\ scan.out[1].stringIndex = 6
  /\ scan.out[2].link = scan.out[2].matched
  /\ StartsWith(scan.out[2].matched, <<"a", "/">>)

\* uri is folder or lies under it
Descends(uri, folder) ==
  /\ Len(folder) <= Len(uri)
  /\ \A k \in 1 .. Len(folder) : uri[k] = folder[k]

\* C7: every link of a detect call has type LocalFile when the result it was
\* made from is not a directory; when it is one, LocalFolderInWorkspace if
\* its uri is, or lies under, at least one workspace folder, and
\* LocalFolderOutsideWorkspace if not.
C7_DirectoryClassification ==
  \A i \in 1 .. Len(calls) :
    /\ Len(calls[i].links) = Len(LinkedMatches(calls[i]))
    /\ \A k \in 1 .. Len(calls[i].links) :
         LET stat == ValidationResult(LinkedMatches(calls[i])[k])
         IN calls[i].links[k].type =
              IF ~stat.isDirectory THEN "LocalFile"
              ELSE IF \E n \in 1 .. Len(folders) : Descends(stat.uri, folders[n])
                   THEN "LocalFolderInWorkspace"
                   ELSE "LocalFolderOutsideWorkspace"

\* a link was made for a folder under the second of two workspace folders
C7_FolderInSecondWorkspaceFolder ==
  \E i \in 1 .. Len(calls) :
    \E k \in 1 .. Len(calls[i].links) :
      /\ Len(folders) = 2
      /\ calls[i].links[k].type = "LocalFolderInWorkspace"
      /\ ~Descends(calls[i].links[k].uri, folders[1])

\* the line of a detect call is empty or longer than MaxLineLength
OutOfBounds(line) ==
  \/ Len(getXtermLineContent(line)) = 0
  \/ Len(getXtermLineContent(line)) > MaxLineLength

\* C8: a detect call on a line that is empty or longer than 2000 characters
\* has returned no link, has matched nothing and waits for no resolver call,
\* and the step that runs it leaves the cache as it was; a detect call on a
\* line of 2000 characters finds the path in the line.
C8_LengthBound ==
  /\ [](\A i \in 1 .. Len(calls) :
          /\ OutOfBounds(calls[i].line) =>
               /\ calls[i].pc = "returned"
               /\ calls[i].links = <<>>
               /\ calls[i].matches = <<>>
          /\ Len(getXtermLineContent(calls[i].line)) = MaxLineLength =>
               \/ calls[i].pc = "await" /\ calls[i].link = PathAB
               \/ calls[i].pc = "rejected"
               \/ /\ calls[i].matches # <<>>
                  /\ calls[i].matches[1].link = PathAB)
  /\ [][(/\ Len(calls') = Len(calls) + 1
         /\ OutOfBounds(calls'[Len(calls')].line))
        => cachedValidatedLinks' = cachedValidatedLinks]_vars

\* a detect call on a line of 2001 characters returned while the cache held
\* an entry, and one on a line of 2000 characters found the path
C8_OverAndFullLines ==
  \E i, j \in 1 .. Len(calls) :
    /\ Len(getXtermLineContent(calls[i].line)) = MaxLineLength + 1
    /\ calls[i].pc = "returned"
    /\ calls[i].links = <<>>
    /\ Len(getXtermLineContent(calls[j].line)) = MaxLineLength
    /\ calls[j].matches # <<>>
    /\ j < i
    /\ DOMAIN cachedValidatedLinks # {}

\* C9: at most one timeout that clears the cache is pending.
C9_SingleTimer == Cardinality(DOMAIN timeouts) <= 1

\* C10: a step that clears the cache is taken 10 s or more after the start
\* of every detect call of a caching detector.
C10_RollingQuietPeriod ==
  [][(calls' = calls /\ DOMAIN timeouts' # DOMAIN timeouts)
     => \A i \in 1 .. Len(calls) :
          _enableCaching(calls[i].det) => now - calls[i].start >= CacheTtl]_vars

\* C11: a step in which the resolver call of a detect call throws leaves the
\* cache as it was, with the entries written earlier and none for the link
\* being validated, and the detect call rejects and does nothing more.
C11_ResolverErrorPropagates ==
  [][\A i \in 1 .. Len(calls) :
       /\ (calls[i].pc = "await" /\ calls'[i].pc = "rejected") =>
            /\ cachedValidatedLinks' = cachedValidatedLinks
            /\ calls'[i].links = calls[i].links
            /\ calls'[i].matches = calls[i].matches
       /\ calls[i].pc = "rejected" => calls'[i] = calls[i]]_vars

\* a detect call rejected at its second link after it had stored the result
\* of its first
C11_RejectedAfterStore ==
  \E i \in 1 .. Len(calls) :
    /\ calls[i].pc = "rejected"
    /\ calls[i].matches # <<>>
    /\ calls[i].matches[1].link \in DOMAIN cachedValidatedLinks
    /\ calls[i].link # calls[i].matches[1].link
    /\ calls[i].link \notin DOMAIN cachedValidatedLinks

\* the validation of match m ended in not found
NotFoundOutcome(m) == m.resolverCalls # <<>> /\ m.validated = Undefined

C13_CachingDisabledFrame ==
  [][\A i \in 1 .. Len(calls') :
       LET new == i > Len(calls)
       IN (new \/ calls'[i] # calls[i]) =>
            IF ~_enableCaching(calls'[i].det)
            THEN /\ cachedValidatedLinks' = cachedValidatedLinks
                 /\ timeouts' = timeouts
                 /\ _cacheTilTimeout' = _cacheTilTimeout
            ELSE (/\ ~new
                  /\ calls[i].pc = "await"
                  /\ Len(calls'[i].matches) > Len(calls[i].matches))
                 => LET m == calls'[i].matches[Len(calls[i].matches) + 1]
                    IN /\ m.link = calls[i].link
                       /\ m.link \in DOMAIN cachedValidatedLinks'
                       /\ cachedValidatedLinks'[m.link] =
                            IF m.validated = Undefined THEN Null
                            ELSE m.validated]_vars

\* a detect call of the detector with caching disabled validated a link and
\* returned, and the cache is empty and no timeout is pending
C13_UncachedValidation ==
  \E i \in 1 .. Len(calls) :
    /\ ~_enableCaching(calls[i].det)
    /\ calls[i].pc = "returned"
    /\ calls[i].matches # <<>>
    /\ Truthy(calls[i].matches[1].validated)
    /\ DOMAIN cachedValidatedLinks = {}
    /\ DOMAIN timeouts = {}

\* link without its leading parent segments
Stripped(link) == SubSeq(link, ParentSegments(link, 0) + 1, Len(link))

\* C14: the resolver calls of one validation are, in order, one with the
\* matched link and, only if that returned nothing and the link begins with
\* parent segments, one with the link without them; a call is made only after
\* the one before has returned nothing; the result is that of the last call,
\* and it is absent exactly when every call returned nothing.
C14_ValidationOrder ==
  \A i \in 1 .. Len(calls) :
    /\ \A k \in 1 .. Len(calls[i].matches) :
         LET m == calls[i].matches[k]
             o == m.outcomes
         IN IF m.cached # Undefined THEN o = <<>>
            ELSE /\ Len(o) \in {1, 2}
                 /\ o[1].link = m.link
                 /\ Len(o) = 2 =>
                      /\ o[1].result = Undefined
                      /\ ParentSegments(m.link, 0) > 0
                      /\ o[2].link = Stripped(m.link)
                 /\ Len(o) = 1 =>
                      o[1].result # Undefined \/ ParentSegments(m.link, 0) = 0
                 /\ m.validated = o[Len(o)].result
                 /\ m.validated = Undefined <=>
                      \A n \in 1 .. Len(o) : o[n].result = Undefined
    /\ calls[i].pc = "await" =>
         /\ Len(calls[i].outcomes) = calls[i].candidate - 1
         /\ \A n \in 1 .. Len(calls[i].outcomes) :
              calls[i].outcomes[n].result = Undefined
         /\ calls[i].candidate \in {1, 2}
         /\ calls[i].candidate = 1 => Awaited(calls[i]) = calls[i].link
         /\ calls[i].candidate = 2 =>
              /\ ParentSegments(calls[i].link, 0) > 0
              /\ Awaited(calls[i]) = Stripped(calls[i].link)

\* a validation called the resolver with the link, which returned nothing,
\* and then with the link without its parent segments, which it resolved
C14_SecondCandidateResolved ==
  \E i \in 1 .. Len(calls) :
    \E k \in 1 .. Len(calls[i].matches) :
      /\ Len(calls[i].matches[k].outcomes) = 2
      /\ Truthy(calls[i].matches[k].validated)
      /\ calls[i].matches[k].validated.link = Stripped(calls[i].matches[k].link)

\* C15: the scan loop has run at most as many iterations as the line has
\* characters, the offset recovered by indexOf is never -1 and, from one
\* iteration to the next, lies after the offset of the one before, shifted
\* or not.
C15_ScanFinite ==
  /\ scan.pc # "break"
  /\ Len(scan.out) <= Len(scan.text)
  /\ \A k \in 1 .. Len(scan.out) :
       /\ 0 <= scan.out[k].found
       /\ scan.out[k].found <= scan.out[k].stringIndex
       /\ k > 1 => scan.out[k - 1].stringIndex < scan.out[k].found

\* a scan ended after three iterations, the first with a prefix shift
C15_ScanEnded ==
  /\ scan.pc = "end"
  /\ Len(scan.out) = 3
  /\ scan.out[1].stringIndex = scan.out[1].found + 2

\* C16: whenever the cache holds an entry, a timeout that clears it is
\* pending.
C16_EntriesHaveTimer ==
  DOMAIN cachedValidatedLinks # {} => DOMAIN timeouts # {}

\* C17: every entry of the cache under a link is null or a result the
\* resolver returned for the link or for the link without its parent
\* segments; and a step changes the entry of a link only at the end of a
\* validation of that link, to its result, or to null after the resolver
\* returned nothing for each of the link's candidates, or when the cache is
\* cleared.
C17_CacheIntegrity ==
  /\ [](\A k \in DOMAIN cachedValidatedLinks :
          \/ cachedValidatedLinks[k] = Null
          \/ cachedValidatedLinks[k] \in
               ResolverResults(k) \cup ResolverResults(Stripped(k)))
  /\ [][\A k \in DOMAIN cachedValidatedLinks' :
          (\/ k \notin DOMAIN cachedValidatedLinks
           \/ cachedValidatedLinks'[k] # cachedValidatedLinks[k])
          => \E i \in 1 .. Len(calls) :
               /\ calls[i].pc = "await"
               /\ calls[i].link = k
               /\ Len(calls'[i].matches) > Len(calls[i].matches)
               /\ LET m == calls'[i].matches[Len(calls[i].matches) + 1]
                  IN /\ m.link = k
                     /\ IF cachedValidatedLinks'[k] = Null
                        THEN /\ Len(m.outcomes) = Len(LinkCandidates(k))
                             /\ \A n \in 1 .. Len(m.outcomes) :
                                  /\ m.outcomes[n].link = LinkCandidates(k)[n]
                                  /\ m.outcomes[n].result = Undefined
                        ELSE \E n \in 1 .. Len(m.outcomes) :
                               /\ m.outcomes[n].result = cachedValidatedLinks'[k]
                               /\ m.outcomes[n].link \in {k, Stripped(k)}]_vars

\* two detect calls validated a link with parent segments at once: one
\* stored null, and the other stored its result over it
C17_OverwrittenEntry ==
  \E i, j \in 1 .. Len(calls) :
    /\ i # j
    /\ calls[i].matches # <<>> /\ calls[j].matches # <<>>
    /\ calls[i].matches[1].link = calls[j].matches[1].link
    /\ ParentSegments(calls[i].matches[1].link, 0) > 0
    /\ NotFoundOutcome(calls[i].matches[1])
    /\ Len(calls[j].matches[1].outcomes) = 2
    /\ Truthy(calls[j].matches[1].validated)
    /\ calls[j].matches[1].link \in DOMAIN cachedValidatedLinks
    /\ cachedValidatedLinks[calls[j].matches[1].link] = calls[j].matches[1].validated

\* C18: the range of every match has both line numbers 1, start column the
\* offset of the link + 1 and end column that offset + the length of the
\* link + 1, offset and link taken after the prefix shift; so
\* 1 <= startColumn < endColumn <= length of the line + 1.
C18_ColumnArithmetic ==
  \A k \in 1 .. Len(scan.out) :
    LET e == scan.out[k]
    IN /\ e.range.startLineNumber = 1
       /\ e.range.endLineNumber = 1
       /\ e.range.startColumn = e.stringIndex + 1
       /\ e.range.endColumn = e.stringIndex + Len(e.link) + 1
       /\ 1 <= e.range.startColumn
       /\ e.range.startColumn < e.range.endColumn
       /\ e.range.endColumn <= Len(scan.text) + 1
       /\ e.range.endColumn - e.range.startColumn = Len(e.link)
       /\ SubSeq(scan.text, e.range.startColumn, e.range.endColumn - 1) = e.link

\* a scan made the range of a link that ends the line, after a prefix shift
C18_RangeAtLineEnd ==
  \E k \in 1 .. Len(scan.out) :
    /\ scan.out[k].stringIndex = scan.out[k].found + 2
    /\ scan.out[k].range.endColumn = Len(scan.text) + 1
    /\ scan.out[k].range.startColumn > 1

\* the outcome of the validation of a match, found or not
Outcome(m) == IF Succeeded(m) THEN ValidationResult(m) ELSE Undefined

\* C19: two detect calls that have returned, on the same line and OS, one
\* that found no match in the cache and one that found every match in it,
\* with the same validation outcome for every match, return the same links.
C19_WarmthIndependence ==
  \A i, j \in 1 .. Len(calls) :
    LET a == calls[i]
        b == calls[j]
    IN (/\ a.pc = "returned" /\ b.pc = "returned"
        /\ a.line = b.line
        /\ _os(a.det) = _os(b.det)
        /\ Len(a.matches) = Len(b.matches)
        /\ \A k \in 1 .. Len(a.matches) :
             /\ a.matches[k].cached = Undefined
             /\ b.matches[k].cached # Undefined
             /\ a.matches[k].link = b.matches[k].link
             /\ Outcome(a.matches[k]) = Outcome(b.matches[k]))
       => a.links = b.links

====
